---- MODULE Spec2Model ----
(***************************************************************************)
(* Model of populate_data.py: the order lifecycle engine                   *)
(* (populate_orders_and_items_new_lifecycle), the date range helper, the   *)
(* timestamp generator, the customer generator and the database session    *)
(* they write through.                                                     *)
(*                                                                         *)
(* Time is an integer number of ticks since an epoch midnight; a second is *)
(* TicksPerSecond ticks, so that datetime values carry a sub-second part   *)
(* that strftime('%Y%m%d-%H%M%S') drops.  Money is an integer number of    *)
(* cents (the DECIMAL(10,2) columns); binary floating point error of the   *)
(* Python floats (below 1e-9 for the sums the code forms) is not modelled. *)
(*                                                                         *)
(* The random module is the environment: every random draw is an           *)
(* existentially quantified input.  Wide ranges are enumerated at sampled  *)
(* values (always including both ends); the variable env names the orders  *)
(* and the kinds of draw that are enumerated over the sampled values, the  *)
(* other draws take the low end of their range.                            *)
(***************************************************************************)
EXTENDS Integers, Sequences, FiniteSets, TLC

VARIABLES
    \* ---- the store (data.source_* tables) and the session
    customers,        \* source_customers rows, id = position: [email, created_at]
    products,         \* source_products rows, id = position: [created_at, price]
    orders,           \* source_orders rows, record_id = position
    order_items,      \* source_order_items rows
    autocommit,       \* connection.autocommit
    \* ---- populate_orders_and_items_new_lifecycle: parameters and locals
    pc,               \* position in the function
    args,             \* [num_orders, max_items_per_order, days, start_date, now]
    start_datetime,
    end_datetime,
    pending_orders,   \* list of order dicts
    order_counters,   \* timestamp_str -> last sequence number
    orders_to_get_items,  \* orders sampled for the item stage, not yet processed
    cur,              \* item loop of one order: [order, num_items, products_in_order, order_total]
    completed_orders, \* sampled order dicts
    refunded_orders,  \* sampled order dicts
    all_order_records,
    all_item_records,
    result,           \* what the call returned: "none" | "true" | "false" | "raised"
    \* ---- history of the call, kept for the statements about it
    run,              \* [started, prior_orders, prior_items, insert_failed]
    \* ---- populate_customers locals
    cpc,              \* position in the function
    cargs,            \* [num_records, start_dt, end_dt, now]
    existing_emails,
    rows,
    cresult,          \* "none" | "returned" | "raised"
    \* ---- populate_products locals
    ppc,              \* position in the function
    pargs,            \* [num_records, start_dt, end_dt, now]
    prows,
    presult,          \* "none" | "returned" | "raised"
    \* ---- main and populate_all_new_lifecycle
    mpc,              \* position: "idle" | "prepare" | "customers" | "products" | "orders" | "exit"
    margs,            \* [customers, products, orders, order_items, days, start_date, now,
                      \*  init_db, truncate, drop_recreate, stats_only]
    exit_code,        \* what main returned: None or Some(code)
    \* ---- setup.py: main
    spc,              \* position: "idle" | "steps" | "ack_initial" | "initial" |
                      \*           "ack_incremental" | "incremental" | "done"
    sidx,             \* index of the next step in the list being run
    calls,            \* the step functions invoked so far: <<[name, ok], ...>>
    failed_steps,     \* the list failed_steps
    cleaned,          \* cleanup_on_failure has been called
    sresult,          \* what main returned: None or Some(boolean)
    \* ---- setup.py: wait_for_database
    wpc,              \* position: "idle" | "loop" | "done"
    attempt,          \* the local attempt
    probes,           \* iterations of the loop executed
    last,             \* outcome of the last iteration, "none" before the first
    wresult,          \* what wait_for_database returned: None or Some(boolean)
    \* ---- environment
    env               \* [focus, kinds, faults, runs_left]

vars == <<customers, products, orders, order_items, autocommit,
          pc, args, start_datetime, end_datetime, pending_orders, order_counters,
          orders_to_get_items, cur, completed_orders, refunded_orders,
          all_order_records, all_item_records, result, run,
          cpc, cargs, existing_emails, rows, cresult,
          ppc, pargs, prows, presult, mpc, margs, exit_code,
          spc, sidx, calls, failed_steps, cleaned, sresult,
          wpc, attempt, probes, last, wresult, env>>

store_vars == <<customers, products, orders, order_items, autocommit>>
engine_vars == <<pc, args, start_datetime, end_datetime, pending_orders, order_counters,
                 orders_to_get_items, cur, completed_orders, refunded_orders,
                 all_order_records, all_item_records, result, run>>
customer_vars == <<cpc, cargs, existing_emails, rows, cresult>>
product_vars == <<ppc, pargs, prows, presult>>
main_vars == <<mpc, margs, exit_code>>
setup_vars == <<spc, sidx, calls, failed_steps, cleaned, sresult>>
wait_vars == <<wpc, attempt, probes, last, wresult>>

-----------------------------------------------------------------------------
(* Bounds of the enumeration *)

TicksPerSecond == 2
MaxOrders == 2
MaxItems == 2
MaxDays == 2

-----------------------------------------------------------------------------
(* datetime and timedelta *)

Second == TicksPerSecond
Minute == 60 * Second
Hour == 60 * Minute
Day == 24 * Hour

timedelta(d, h, m, s) == d * Day + h * Hour + m * Minute + s * Second

\* timedelta.days: whole days, rounded towards minus infinity
DaysOf(delta) == delta \div Day

\* original_order_date.strftime('%Y%m%d-%H%M%S'): the date and the time of
\* day to the second; the sub-second part is dropped
strftime(t) == <<(t \div Second) \div 86400, (t \div Second) % 86400>>

SetMin(S) == CHOOSE x \in S : \A y \in S : x <= y
SetMax(S) == CHOOSE x \in S : \A y \in S : x >= y

\* Optional values: None, or a one-element tuple holding the value
None == <<>>
Some(x) == <<x>>

-----------------------------------------------------------------------------
(* The random draws *)

\* random.randint(0, 23), random.randint(0, 59), random.randint(0, 59)
HourDraws == {0, 23}
MinuteDraws == {0, 59}
SecondDraws == {0, 59}
\* random.randint(1, 60), random.randint(0, 59) of the item offset
ItemMinuteDraws == {1, 60}
ItemSecondDraws == {0, 59}
\* random.randint(1, 4), random.randint(1, 2), random.randint(1, 12)
StatusDayDraws == 1..4
RefundDayDraws == 1..2
ClampHourDraws == {1, 12}
\* random.randint(1, 3); random.uniform(0.1, 0.3) in percent
QuantityDraws == 1..3
DiscountDraws == {10, 25, 30}

\* The draws of one kind enumerated for the order at position i: the sampled
\* values when the order and the kind are in focus, the low end of the range
\* otherwise.  The kinds: "date" (the order timestamp), "item" (the number of
\* items, the product and the time offset of each), "status" (the delays of
\* the status records), "money" (quantity and discount), "who" (the customer);
\* "sample" is the kind of the random.sample calls.
Draw(kind, i, S) ==
    IF S = {} \/ (i \in env.focus /\ kind \in env.kinds) THEN S ELSE {SetMin(S)}

\* The discount of an item slot: None when random.random() >= 0.1, else the
\* drawn percentage
Discounts(i) ==
    {None} \cup (IF i \in env.focus /\ "money" \in env.kinds
                 THEN {Some(d) : d \in DiscountDraws} ELSE {})

\* Any size up to the high rate
SampleSizesFromNone(n, lo, hi) == 0..((n * hi) \div 100)

\* Any size from the low rate up to the whole population
SampleSizesUpToAll(n, lo, hi) == {(n * p) \div 100 : p \in lo..100}

\* int(n * random.uniform(lo, hi)) with the rate in whole percent
SampleSizes(n, lo, hi) == {(n * p) \div 100 : p \in lo..hi}

RECURSIVE Lowest(_, _)
\* The k lowest elements of a set of numbers
Lowest(S, k) ==
    IF k = 0 \/ S = {} THEN {} ELSE {SetMin(S)} \cup Lowest(S \ {SetMin(S)}, k - 1)

\* random.sample(population, k) as the set of the k chosen positions: every
\* choice of k when the kind "sample" is enumerated, the k lowest otherwise
Samples(population, k) ==
    IF "sample" \in env.kinds
    THEN {S \in SUBSET population : Cardinality(S) = k}
    ELSE {Lowest(population, k)}

-----------------------------------------------------------------------------
(* generate_random_timestamp *)

\* The values generate_random_timestamp(start_date, end_date) can return for
\* the order at position i; empty when random.randint(0, days_between)
\* raises ValueError (days_between < 0).
generate_random_timestamp(start_date, end_date, i) ==
    LET time_between == end_date - start_date
        days_between == DaysOf(time_between)
    IN  { start_date + timedelta(random_days, random_hours, random_minutes, random_seconds) :
            <<random_days, random_hours, random_minutes, random_seconds>> \in
                Draw("date", i, 0..days_between) \X Draw("date", i, HourDraws)
                    \X Draw("date", i, MinuteDraws)
                    \X Draw("date", i, SecondDraws) }

-----------------------------------------------------------------------------
(* standalone_calculate_date_range *)

\* SELECT MAX(created_at) FROM data.source_orders
MaxCreatedAt(table) ==
    IF Len(table) = 0 THEN None
    ELSE Some(SetMax({table[k].created_at : k \in 1..Len(table)}))

\* datetime.strptime(start_date, '%Y-%m-%d'): the midnight of the day named
strptime(day) == day * Day

\* start_date is None or Some(day); now is datetime.now()
standalone_calculate_date_range(table, days_from_max, start_date, now) ==
    IF start_date # None
    THEN LET start == strptime(start_date[1])
         IN  [start |-> start, end |-> start + timedelta(days_from_max, 0, 0, 0)]
    ELSE LET max_date == IF MaxCreatedAt(table) # None THEN MaxCreatedAt(table)[1] ELSE now
         IN  [start |-> max_date, end |-> max_date + timedelta(days_from_max, 0, 0, 0)]

-----------------------------------------------------------------------------
(* The database session (psycopg2 connection and cursor) *)

\* The first k elements of a list
Prefix(seq, k) == SubSeq(seq, 1, k)

\* connection.rollback() after statements turned the table content `before`
\* (the last commit) into `current`: with autocommit on every statement was
\* committed as it ran and nothing is left to undo.
Rollback(ac, before, current) == IF ac THEN current ELSE before

\* How many rows of an executemany over n rows are inserted: all of them, or,
\* when the store may reject a row, the rows before the rejected one
RowsInserted(n) == IF env.faults THEN 0..n ELSE {n}

-----------------------------------------------------------------------------
(* Money *)

\* round(x, 2) of the amount n/d cents: to the nearest cent, ties to even
RoundCents(n, d) ==
    LET q == n \div d
        r == n % d
    IN  IF 2 * r < d THEN q
        ELSE IF 2 * r > d THEN q + 1
        ELSE IF q % 2 = 0 THEN q ELSE q + 1

\* The discount taken for the price: catalog_price * discount
UnitPriceDiscountAsPrice(catalog_price, discount) ==
    IF discount = None THEN RoundCents(catalog_price, 1)
    ELSE RoundCents(catalog_price * discount[1], 100)

\* unit_price: the catalog price, or the catalog price less the discount
\* (percent), rounded to the cent
UnitPrice(catalog_price, discount) ==
    IF discount = None THEN RoundCents(catalog_price, 1)
    ELSE RoundCents(catalog_price * (100 - discount[1]), 100)

-----------------------------------------------------------------------------
(* populate_orders_and_items_new_lifecycle *)

PickAttempts == 10

RECURSIVE PickProduct(_, _, _)
\* The product the retry loop of an item slot can end on, `attempts` failed
\* attempts into it: a product that passes the test, or after PickAttempts
\* failures any eligible product
PickProduct(eligible_products, products_in_order, attempts) ==
    LET Passes(t) == t \notin products_in_order \/ Cardinality(eligible_products) = 1
    IN  IF attempts < PickAttempts
        THEN {t \in eligible_products : Passes(t)}
             \cup (IF \E t \in eligible_products : ~Passes(t)
                   THEN PickProduct(eligible_products, products_in_order, attempts + 1)
                   ELSE {})
        ELSE eligible_products

\* An identifier that leaves the sequence number out
FormatOrderIdNoSequence(timestamp_str, counter) == <<timestamp_str[1], timestamp_str[2], 0>>

\* f"{timestamp_str}-{order_counters[timestamp_str]:06d}"
FormatOrderId(timestamp_str, counter) == <<timestamp_str[1], timestamp_str[2], counter>>

\* Every product of the catalog, whatever its creation time
EligibleProductsAnyTime(order_date) == 1..Len(products)

\* Products that are at least a day old at order date
EligibleProductsDayOld(order_date) ==
    {pid \in 1..Len(products) : products[pid].created_at + Day <= order_date}

\* Products available at order date
EligibleProducts(order_date) ==
    {pid \in 1..Len(products) : products[pid].created_at <= order_date}

\* A status timestamp: base plus a drawn number of days, replaced by the end
\* of the window less a drawn number of hours when it passes the end
StatusTimes(base, day_draws, i) ==
    UNION { LET at == base + timedelta(d, 0, 0, 0)
            IN  IF at > end_datetime
                THEN {end_datetime - timedelta(0, h, 0, 0) : h \in Draw("status", i, ClampHourDraws)}
                ELSE {at}
            : d \in Draw("status", i, day_draws) }

\* Orders whose pending record is already in all_order_records
Materialized == Cardinality({k \in 1..Len(all_order_records) : all_order_records[k].status = "pending"})

\* Only an empty products table stops the run
NoSourceDataProductsOnly(customer_table, product_table) == Len(product_table) = 0

\* if not customer_ids: return False; if not product_data: return False
NoSourceData(customer_table, product_table) ==
    Len(customer_table) = 0 \/ Len(product_table) = 0

\* customer_ids including an id below the first SERIAL value
CustomerIdsFromZero(customer_table) == 0..Len(customer_table)

\* customer_ids: SELECT id FROM data.source_customers
CustomerIds(customer_table) == 1..Len(customer_table)

\* The start of the window left where the date range put it
UnadjustedStart(range_start, min_product_time) == range_start

\* Ensure orders don't precede products
AdjustedStart(range_start, min_product_time) ==
    IF min_product_time > range_start
    THEN min_product_time + timedelta(0, 0, 1, 0)
    ELSE range_start

\* A counter that starts again at 1 for every order
NextCounterRestart(counters, timestamp_str) == 1

\* order_counters[timestamp_str] after the order is counted
NextCounter(counters, timestamp_str) ==
    IF timestamp_str \notin DOMAIN counters THEN 1 ELSE counters[timestamp_str] + 1

\* Lines 1282-1333: read the customers and the products, compute the window
StartRun(num_orders, max_items_per_order, days, start_date, now) ==
    /\ pc \in {"idle", "done"}
    /\ cpc # "generate"
    /\ ppc # "generate"
    /\ env.runs_left > 0
    /\ env' = [env EXCEPT !.runs_left = @ - 1]
    /\ args' = [num_orders |-> num_orders, max_items_per_order |-> max_items_per_order,
                days |-> days, start_date |-> start_date, now |-> now]
    /\ run' = [started |-> ~NoSourceData(customers, products),
                prior_orders |-> orders, prior_items |-> order_items,
                insert_failed |-> FALSE]
    /\ pending_orders' = <<>>
    /\ order_counters' = <<>>
    /\ orders_to_get_items' = {}
    /\ cur' = None
    /\ completed_orders' = {}
    /\ refunded_orders' = {}
    /\ all_order_records' = <<>>
    /\ all_item_records' = <<>>
    /\ IF NoSourceData(customers, products)
       THEN /\ pc' = "done"
            /\ result' = "false"
            /\ start_datetime' = 0
            /\ end_datetime' = 0
       ELSE LET range == standalone_calculate_date_range(orders, days, start_date, now)
                min_product_time == SetMin({products[k].created_at : k \in 1..Len(products)})
            IN  /\ start_datetime' = AdjustedStart(range.start, min_product_time)
                /\ end_datetime' = range.end
                /\ pc' = "stage1"
                /\ result' = "none"
    /\ UNCHANGED <<store_vars, customer_vars, product_vars, main_vars, setup_vars, wait_vars>>

\* Lines 1340-1360: one iteration of the stage 1 loop
CreatePendingOrder ==
    /\ pc = "stage1"
    /\ Len(pending_orders) < args.num_orders
    /\ LET order_num == Len(pending_orders) + 1
           stamps == generate_random_timestamp(start_datetime, end_datetime, order_num)
       IN  IF stamps = {}
           THEN /\ pc' = "done"
                /\ result' = "raised"
                /\ UNCHANGED <<pending_orders, order_counters>>
           ELSE \E customer_id \in Draw("who", order_num, CustomerIds(customers)),
                   original_order_date \in stamps :
                  LET timestamp_str == strftime(original_order_date)
                      counter == NextCounter(order_counters, timestamp_str)
                  IN  /\ order_counters' = (timestamp_str :> counter) @@ order_counters
                      /\ pending_orders' = Append(pending_orders,
                             [id |-> FormatOrderId(timestamp_str, counter),
                              customer_id |-> customer_id,
                              order_date |-> original_order_date,
                              total_amount |-> 0,
                              has_items |-> FALSE,
                              items |-> <<>>])
                      /\ UNCHANGED <<pc, result>>
    /\ UNCHANGED <<store_vars, customer_vars, product_vars, main_vars, setup_vars, wait_vars, env, args, run, start_datetime, end_datetime,
                   orders_to_get_items, cur, completed_orders, refunded_orders,
                   all_order_records, all_item_records>>

\* Lines 1363-1365: sample the orders that get items
SelectOrdersToGetItems ==
    /\ pc = "stage1"
    /\ Len(pending_orders) = args.num_orders
    /\ \E num_orders_with_items \in SampleSizes(args.num_orders, 85, 100) :
         \E sample \in Samples(1..Len(pending_orders), num_orders_with_items) :
            orders_to_get_items' = sample
    /\ pc' = "stage2"
    /\ UNCHANGED <<store_vars, customer_vars, product_vars, main_vars, setup_vars, wait_vars, env, args, run, start_datetime, end_datetime,
                   pending_orders, order_counters, cur, completed_orders, refunded_orders,
                   all_order_records, all_item_records, result>>

\* An item count that may be zero
ItemCountsFromZero(max_items_per_order) == 0..max_items_per_order

\* random.randint(1, max_items_per_order)
ItemCounts(max_items_per_order) == 1..max_items_per_order

\* Lines 1370-1385: take the next sampled order; skip it when no product is
\* eligible, else draw its number of items.  The sampled orders are taken in
\* the order of their position: what one order receives does not depend on
\* the others.
BeginOrderItems ==
    /\ pc = "stage2"
    /\ cur = None
    /\ orders_to_get_items # {}
    /\ LET o == SetMin(orders_to_get_items)
           eligible_products == EligibleProducts(pending_orders[o].order_date)
       IN  IF eligible_products = {}
           THEN /\ orders_to_get_items' = orders_to_get_items \ {o}
                /\ cur' = None
           ELSE /\ \E num_items \in Draw("item", o, ItemCounts(args.max_items_per_order)) :
                     cur' = Some([order |-> o, num_items |-> num_items,
                                  eligible_products |-> eligible_products,
                                  products_in_order |-> {}, order_total |-> 0])
                /\ UNCHANGED orders_to_get_items
    /\ UNCHANGED <<store_vars, customer_vars, product_vars, main_vars, setup_vars, wait_vars, env, args, run, start_datetime, end_datetime,
                   pending_orders, order_counters, completed_orders, refunded_orders,
                   all_order_records, all_item_records, result, pc>>

\* Lines 1387-1430: one item slot
AddItem ==
    /\ pc = "stage2"
    /\ cur # None
    /\ LET o == cur[1].order
           order == pending_orders[o]
       IN  /\ Len(order.items) < cur[1].num_items
           /\ \E product_id \in Draw("item", o, PickProduct(cur[1].eligible_products,
                                                             cur[1].products_in_order, 0)),
                 quantity \in Draw("money", o, QuantityDraws),
                 discount \in Discounts(o),
                 minutes \in Draw("item", o, ItemMinuteDraws),
                 seconds \in Draw("item", o, ItemSecondDraws) :
                LET catalog_price == products[product_id].price
                    unit_price == UnitPrice(catalog_price, discount)
                    line_total == quantity * unit_price
                    item_created_at == order.order_date + timedelta(0, 0, minutes, seconds)
                IN  /\ cur' = Some([cur[1] EXCEPT
                                      !.products_in_order = @ \cup {product_id},
                                      !.order_total = @ + line_total])
                    /\ pending_orders' = [pending_orders EXCEPT ![o].items =
                           Append(@, [product_id |-> product_id, quantity |-> quantity,
                                      unit_price |-> unit_price, created_at |-> item_created_at])]
    /\ UNCHANGED <<store_vars, customer_vars, product_vars, main_vars, setup_vars, wait_vars, env, args, run, start_datetime, end_datetime,
                   order_counters, orders_to_get_items, completed_orders, refunded_orders,
                   all_order_records, all_item_records, result, pc>>

\* Lines 1432-1433: the order has its items
FinishOrderItems ==
    /\ pc = "stage2"
    /\ cur # None
    /\ LET o == cur[1].order
       IN  /\ Len(pending_orders[o].items) = cur[1].num_items
           /\ pending_orders' = [pending_orders EXCEPT
                                   ![o].has_items = TRUE,
                                   ![o].total_amount = RoundCents(cur[1].order_total, 1)]
           /\ orders_to_get_items' = orders_to_get_items \ {o}
    /\ cur' = None
    /\ UNCHANGED <<store_vars, customer_vars, product_vars, main_vars, setup_vars, wait_vars, env, args, run, start_datetime, end_datetime,
                   order_counters, completed_orders, refunded_orders,
                   all_order_records, all_item_records, result, pc>>

\* Every pending order, with or without items
OrdersWithItemsOrNot(po) == 1..Len(po)

\* orders_with_items, as positions in pending_orders
OrdersWithItems(po) == {k \in 1..Len(po) : po[k].has_items}

\* Lines 1437-1453: sample the completed orders among those with items and
\* the refunded orders among the completed ones
DetermineStatuses ==
    /\ pc = "stage2"
    /\ cur = None
    /\ orders_to_get_items = {}
    /\ LET orders_with_items == OrdersWithItems(pending_orders)
       IN  \E num_to_complete \in SampleSizes(Cardinality(orders_with_items), 90, 100) :
             \E completed \in Samples(orders_with_items, num_to_complete) :
               \E num_to_refund \in SampleSizes(Cardinality(completed), 5, 10) :
                 \E refunded \in Samples(completed, num_to_refund) :
                    /\ completed_orders' = {pending_orders[k] : k \in completed}
                    /\ refunded_orders' = {pending_orders[k] : k \in refunded}
    /\ pc' = "materialize"
    /\ UNCHANGED <<store_vars, customer_vars, product_vars, main_vars, setup_vars, wait_vars, env, args, run, start_datetime, end_datetime,
                   pending_orders, order_counters, orders_to_get_items, cur,
                   all_order_records, all_item_records, result>>

\* A pending record that keeps the initial total of stage 1
OrderRecordStaleTotal(order, status, created_at) ==
    [id |-> order.id, customer_id |-> order.customer_id, order_date |-> order.order_date,
     status |-> status,
     total_amount |-> IF status = "pending" THEN 0 ELSE order.total_amount,
     created_at |-> created_at]

\* One tuple of all_order_records
OrderRecord(order, status, created_at) ==
    [id |-> order.id, customer_id |-> order.customer_id, order_date |-> order.order_date,
     status |-> status, total_amount |-> order.total_amount, created_at |-> created_at]

\* The tuples of all_item_records of one order
ItemRecords(order) ==
    [k \in 1..Len(order.items) |->
        [order_id |-> order.id, product_id |-> order.items[k].product_id,
         quantity |-> order.items[k].quantity, unit_price |-> order.items[k].unit_price,
         created_at |-> order.items[k].created_at]]

\* Lines 1461-1500: the records of one order
MaterializeOrder ==
    /\ pc = "materialize"
    /\ Materialized < Len(pending_orders)
    /\ LET m == Materialized + 1
           order == pending_orders[m]
           pending == OrderRecord(order, "pending", order.order_date)
       IN  /\ all_item_records' = all_item_records \o ItemRecords(order)
           /\ IF order \in completed_orders
              THEN \E completed_at \in StatusTimes(order.order_date, StatusDayDraws, m) :
                     IF order \in refunded_orders
                     THEN \E refunded_at \in StatusTimes(completed_at, RefundDayDraws, m) :
                            all_order_records' = all_order_records \o
                                <<pending, OrderRecord(order, "completed", completed_at),
                                  OrderRecord(order, "refunded", refunded_at)>>
                     ELSE all_order_records' = all_order_records \o
                                <<pending, OrderRecord(order, "completed", completed_at)>>
              ELSE \E cancelled_at \in StatusTimes(order.order_date, StatusDayDraws, m) :
                     all_order_records' = all_order_records \o
                                <<pending, OrderRecord(order, "cancelled", cancelled_at)>>
    /\ UNCHANGED <<store_vars, customer_vars, product_vars, main_vars, setup_vars, wait_vars, env, args, run, start_datetime, end_datetime,
                   pending_orders, order_counters, orders_to_get_items, cur,
                   completed_orders, refunded_orders, result, pc>>

\* Lines 1502-1533: insert the order records, then the item records, commit;
\* on an exception roll back and return False
PersistRecords ==
    /\ pc = "materialize"
    /\ Materialized = Len(pending_orders)
    /\ \E order_rows \in RowsInserted(Len(all_order_records)) :
         \E item_rows \in (IF order_rows = Len(all_order_records)
                           THEN RowsInserted(Len(all_item_records)) ELSE {0}) :
           LET inserted == order_rows = Len(all_order_records)
                           /\ item_rows = Len(all_item_records)
               after_orders == orders \o Prefix(all_order_records, order_rows)
               after_items == order_items \o Prefix(all_item_records, item_rows)
           IN  IF inserted
               THEN \* committed; the statistics divide by num_orders
                    /\ orders' = after_orders
                    /\ order_items' = after_items
                    /\ result' = IF args.num_orders = 0 THEN "false" ELSE "true"
                    /\ run' = run
               ELSE /\ orders' = Rollback(autocommit, orders, after_orders)
                    /\ order_items' = Rollback(autocommit, order_items, after_items)
                    /\ result' = "false"
                    /\ run' = [run EXCEPT !.insert_failed = TRUE]
    /\ pc' = "done"
    /\ UNCHANGED <<customers, products, autocommit, customer_vars, product_vars, main_vars, setup_vars, wait_vars,
                   env, args,
                   start_datetime, end_datetime,
                   pending_orders, order_counters, orders_to_get_items, cur,
                   completed_orders, refunded_orders, all_order_records, all_item_records>>

-----------------------------------------------------------------------------
(* populate_customers *)

EmailTries == 50

\* A timestamp that may fall a second after the end
random_timestampPastEnd(start_dt, end_dt) ==
    {start_dt + timedelta(0, 0, 0, random_seconds) :
        random_seconds \in {0, (end_dt - start_dt) \div Second + 1}}

\* random_timestamp(start_dt, end_dt): start plus a whole number of seconds
\* up to int(time_between.total_seconds()), drawn at both ends of the range
random_timestamp(start_dt, end_dt) ==
    {start_dt + timedelta(0, 0, 0, random_seconds) :
        random_seconds \in {0, (end_dt - start_dt) \div Second}}

\* datetime.date(): the day of a timestamp
DateOf(t) == t \div Day

\* What fake.email() can return
EmailPool == {"a", "b", "c"}

RECURSIVE GeneratedEmail(_, _)
\* The email the retry loop can end on, `tries` retries into it: a candidate
\* that is not in existing_emails, or after EmailTries retries any candidate
GeneratedEmail(existing, tries) ==
    IF tries < EmailTries
    THEN (EmailPool \ existing)
         \cup (IF EmailPool \cap existing # {} THEN GeneratedEmail(existing, tries + 1) ELSE {})
    ELSE EmailPool

\* Lines 250-263: the window and the emails already stored
StartCustomers(num_records, days_from_max, start_date, now) ==
    /\ cpc = "idle"
    /\ pc = "idle"
    /\ IF num_records <= 0
       THEN /\ cpc' = "done"
            /\ cresult' = "returned"
            /\ UNCHANGED <<cargs, existing_emails, rows>>
       ELSE LET range == standalone_calculate_date_range(customers, days_from_max, start_date, now)
            IN  /\ cargs' = [num_records |-> num_records, start_dt |-> range.start,
                             end_dt |-> range.end, now |-> now]
                /\ existing_emails' = {customers[k].email : k \in 1..Len(customers)}
                /\ rows' = <<>>
                /\ cpc' = "generate"
                /\ UNCHANGED cresult
    /\ UNCHANGED <<store_vars, engine_vars, product_vars, main_vars, setup_vars, wait_vars, env>>

\* Lines 264-277: one customer
GenerateCustomer ==
    /\ cpc = "generate"
    /\ Len(rows) < cargs.num_records
    /\ \E email \in GeneratedEmail(existing_emails, 0),
          signup \in random_timestamp(cargs.start_dt, cargs.end_dt),
          created_at \in random_timestamp(cargs.start_dt, cargs.end_dt) :
         /\ existing_emails' = existing_emails \cup {email}
         /\ rows' = Append(rows, [email |-> email, signup_date |-> DateOf(signup),
                                  created_at |-> created_at])
    /\ UNCHANGED <<store_vars, engine_vars, product_vars, main_vars, setup_vars, wait_vars, env, cpc, cargs, cresult>>

\* The rows of an executemany that data.source_customers accepts: those
\* before the first row whose email the table already holds (email UNIQUE)
RECURSIVE AcceptedCustomers(_, _)
AcceptedCustomers(table, batch) ==
    IF batch = <<>> THEN table
    ELSE IF \E k \in 1..Len(table) : table[k].email = Head(batch).email
         THEN table
         ELSE AcceptedCustomers(Append(table, Head(batch)), Tail(batch))

\* Lines 279-285: the bulk insert; a rejected row raises out of the function
InsertCustomers ==
    /\ cpc = "generate"
    /\ Len(rows) = cargs.num_records
    /\ LET after == AcceptedCustomers(customers, rows)
       IN  /\ customers' = after
           /\ cresult' = IF Len(after) = Len(customers) + Len(rows) THEN "returned" ELSE "raised"
    /\ cpc' = "done"
    /\ UNCHANGED <<products, orders, order_items, autocommit, engine_vars, product_vars,
                   main_vars, setup_vars, wait_vars, env, cargs, existing_emails, rows>>

-----------------------------------------------------------------------------
(* populate_products *)

\* round(random.uniform(25, 200), 2) and the other price ranges, in cents
PriceDraws == {2500, 19999}

\* Lines 288-294: the window of the products stage
StartProducts(num_records, days_from_max, start_date, now) ==
    /\ ppc = "idle"
    /\ cpc # "generate"
    /\ pc = "idle"
    /\ IF num_records <= 0
       THEN /\ ppc' = "done"
            /\ presult' = "returned"
            /\ UNCHANGED <<pargs, prows>>
       ELSE LET range == standalone_calculate_date_range(products, days_from_max, start_date, now)
            IN  /\ pargs' = [num_records |-> num_records, start_dt |-> range.start,
                             end_dt |-> range.end, now |-> now]
                /\ prows' = <<>>
                /\ ppc' = "generate"
                /\ UNCHANGED presult
    /\ UNCHANGED <<store_vars, engine_vars, customer_vars, main_vars, setup_vars, wait_vars, env>>

\* Lines 297-317: one product
GenerateProduct ==
    /\ ppc = "generate"
    /\ Len(prows) < pargs.num_records
    /\ \E price \in PriceDraws,
          created_at \in random_timestamp(pargs.start_dt, pargs.end_dt) :
         prows' = Append(prows, [created_at |-> created_at, price |-> price])
    /\ UNCHANGED <<store_vars, engine_vars, customer_vars, main_vars, setup_vars, wait_vars, env, ppc, pargs, presult>>

\* Lines 319-325: the bulk insert; a rejected row raises out of the function
InsertProducts ==
    /\ ppc = "generate"
    /\ Len(prows) = pargs.num_records
    /\ \E product_rows \in RowsInserted(Len(prows)) :
         /\ products' = products \o Prefix(prows, product_rows)
         /\ presult' = IF product_rows = Len(prows) THEN "returned" ELSE "raised"
    /\ ppc' = "done"
    /\ UNCHANGED <<customers, orders, order_items, autocommit, engine_vars, customer_vars,
                   main_vars, setup_vars, wait_vars, env, pargs, prows>>

-----------------------------------------------------------------------------
(* main and populate_all_new_lifecycle *)

\* datetime.now() as a stage reads it: a second after the stage before it
StageNow(stage) == margs.now + stage * Second

\* --init-db, --truncate, --drop-recreate and --stats-only all absent
NoFlags ==
    [init_db |-> FALSE, truncate |-> FALSE, drop_recreate |-> FALSE, stats_only |-> FALSE]

\* Lines 1551-1562: the arguments are parsed
MainStart(num_customers, num_products, num_orders, max_order_items, days, start_date, now, flags) ==
    /\ mpc = "idle"
    /\ cpc = "idle" /\ ppc = "idle" /\ pc = "idle"
    /\ margs' = [customers |-> num_customers, products |-> num_products,
                 orders |-> num_orders, order_items |-> max_order_items,
                 days |-> days, start_date |-> start_date, now |-> now,
                 init_db |-> flags.init_db, truncate |-> flags.truncate,
                 drop_recreate |-> flags.drop_recreate, stats_only |-> flags.stats_only]
    /\ mpc' = "prepare"
    /\ UNCHANGED <<store_vars, engine_vars, customer_vars, product_vars, setup_vars,
                   wait_vars, env, exit_code>>

\* Whether a statement sent to the server succeeds
StatementOutcomes == IF env.faults THEN BOOLEAN ELSE {TRUE}

\* The two destructive flags together are refused
NoConflictingFlags(truncate, drop_recreate) == FALSE

\* Line 1580: args.truncate and args.drop_recreate
ConflictingFlags(truncate, drop_recreate) == truncate /\ drop_recreate

\* Lines 1572-1591: the schema is initialized or the connection taken
\* (ctx.connect always returns True), the destructive flags are acted on
\* and --stats-only returns after the statistics. drop_and_recreate
\* (lines 149-215) and truncate_all (lines 218-230) each send one
\* multi-statement query, which the server runs as one transaction: the
\* four tables are emptied or nothing is changed. A failed truncate is
\* printed and main goes on. Ids are modelled as positions in the tables.
MainPrepare ==
    /\ mpc = "prepare"
    /\ \E init_ok \in StatementOutcomes, emptied \in StatementOutcomes :
         IF margs.init_db /\ ~init_ok
         THEN /\ mpc' = "exit" /\ exit_code' = Some(1)
              /\ UNCHANGED store_vars
         ELSE IF ConflictingFlags(margs.truncate, margs.drop_recreate)
         THEN /\ mpc' = "exit" /\ exit_code' = Some(1)
              /\ UNCHANGED store_vars
         ELSE IF margs.drop_recreate /\ ~emptied
         THEN /\ mpc' = "exit" /\ exit_code' = Some(1)
              /\ UNCHANGED store_vars
         ELSE /\ IF (margs.drop_recreate \/ margs.truncate) /\ emptied
                 THEN /\ customers' = <<>>
                      /\ products' = <<>>
                      /\ orders' = <<>>
                      /\ order_items' = <<>>
                      /\ UNCHANGED autocommit
                 ELSE UNCHANGED store_vars
              /\ IF margs.stats_only
                 THEN mpc' = "exit" /\ exit_code' = Some(0)
                 ELSE mpc' = "customers" /\ UNCHANGED exit_code
    /\ UNCHANGED <<engine_vars, customer_vars, product_vars, setup_vars, wait_vars, env,
                   margs>>

\* Line 1541: populate_customers(ctx, customers, days, start_date)
CallCustomers ==
    /\ mpc = "customers"
    /\ StartCustomers(margs.customers, margs.days, margs.start_date, StageNow(0))

\* The products stage is entered whatever populate_customers did
ReturnCustomersIgnoringFailure ==
    /\ mpc = "customers"
    /\ cpc = "done"
    /\ mpc' = "products"
    /\ UNCHANGED <<store_vars, engine_vars, customer_vars, product_vars, setup_vars,
                   wait_vars, env, margs, exit_code>>

\* populate_customers returned, or its exception reached main (lines 1624-1626)
ReturnCustomers ==
    /\ mpc = "customers"
    /\ cpc = "done"
    /\ IF cresult = "raised"
       THEN mpc' = "exit" /\ exit_code' = Some(1)
       ELSE mpc' = "products" /\ UNCHANGED exit_code
    /\ UNCHANGED <<store_vars, engine_vars, customer_vars, product_vars, setup_vars,
                   wait_vars, env, margs>>

\* Line 1544: populate_products(ctx, products, days, start_date)
CallProducts ==
    /\ mpc = "products"
    /\ StartProducts(margs.products, margs.days, margs.start_date, StageNow(1))

\* populate_products returned, or its exception reached main
ReturnProducts ==
    /\ mpc = "products"
    /\ ppc = "done"
    /\ IF presult = "raised"
       THEN mpc' = "exit" /\ exit_code' = Some(1)
       ELSE mpc' = "orders" /\ UNCHANGED exit_code
    /\ UNCHANGED <<store_vars, engine_vars, customer_vars, product_vars, setup_vars,
                   wait_vars, env, margs>>

\* Line 1547: populate_orders_and_items_new_lifecycle(ctx, orders, order_items, ...)
CallOrders ==
    /\ mpc = "orders"
    /\ pc = "idle"
    /\ StartRun(margs.orders, margs.order_items, margs.days, margs.start_date, StageNow(2))

\* The engine returned (its result is not looked at, lines 1607-1614 and
\* 1629), or its exception reached main
ReturnOrders ==
    /\ mpc = "orders"
    /\ pc = "done"
    /\ mpc' = "exit"
    /\ exit_code' = IF result = "raised" THEN Some(1) ELSE Some(0)
    /\ UNCHANGED <<store_vars, engine_vars, customer_vars, product_vars, setup_vars,
                   wait_vars, env, margs>>

-----------------------------------------------------------------------------
(* setup.py: wait_for_database and main *)

\* Line 239: max_attempts
MaxAttempts == 30

\* What one iteration of the loop finds: pg_isready and psql both return 0,
\* pg_isready returns non-zero, psql returns non-zero, or subprocess.run
\* raises
AttemptOutcomes == {"ready", "not_ready", "query_failed", "raised"}

\* Only the iterations that ran to their end are counted
AttemptsAfterUnlessRaised(n, outcome) == IF outcome = "raised" THEN n ELSE n + 1

\* Lines 263 and 269: attempt += 1, in the body and in the except clause
AttemptsAfter(n, outcome) == n + 1

\* Lines 237-240: wait_for_database is entered
WaitStart ==
    /\ wpc = "idle"
    /\ wpc' = "loop"
    /\ attempt' = 0
    /\ probes' = 0
    /\ last' = "none"
    /\ wresult' = None

\* Lines 242-274: one iteration of the loop, and the return False that
\* follows the iteration after which attempt < max_attempts is false
WaitAttempt ==
    /\ wpc = "loop"
    /\ attempt < MaxAttempts
    /\ \E outcome \in AttemptOutcomes :
         /\ last' = outcome
         /\ probes' = probes + 1
         /\ IF outcome = "ready"
            THEN /\ wpc' = "done"
                 /\ wresult' = Some(TRUE)
                 /\ UNCHANGED attempt
            ELSE /\ attempt' = AttemptsAfter(attempt, outcome)
                 /\ IF attempt' < MaxAttempts
                    THEN UNCHANGED <<wpc, wresult>>
                    ELSE wpc' = "done" /\ wresult' = Some(FALSE)
    /\ UNCHANGED <<store_vars, engine_vars, customer_vars, product_vars, main_vars,
                   setup_vars, env>>

\* Lines 593-606: steps
Steps ==
    <<"check_python", "check_docker", "setup_virtual_environment", "install_dependencies",
      "pull_postgres_image", "start_database", "wait_for_database",
      "create_edikted_database", "install_dbt_dependencies", "test_dbt_connection",
      "run_dbt_compile", "generate_dbt_docs">>

\* Lines 632-636: initial_steps
InitialSteps == <<"run_database_initialization", "run_dbt_build", "verify_database_connection">>

\* Lines 659-662: incremental_steps
IncrementalSteps == <<"run_incremental_data_test", "run_incremental_build">>

\* What a call of the step function returns; wait_for_database returns
\* what its loop found
StepOutcomes(name) == IF name = "wait_for_database" THEN {wresult[1]} ELSE BOOLEAN

\* The step function has returned, or is not wait_for_database
StepReturned(name) == name = "wait_for_database" => wpc = "done"

Call(name, ok) == [name |-> name, ok |-> ok]

\* Lines 582-608: main is entered
SetupStart ==
    /\ spc = "idle"
    /\ wpc = "idle"
    /\ spc' = "steps"
    /\ sidx' = 1
    /\ calls' = <<>>
    /\ failed_steps' = <<>>
    /\ cleaned' = FALSE
    /\ sresult' = None
    /\ UNCHANGED <<store_vars, engine_vars, customer_vars, product_vars, main_vars,
                   wait_vars, env>>

\* Line 613: step_function() is wait_for_database
CallWaitForDatabase ==
    /\ spc = "steps"
    /\ Steps[sidx] = "wait_for_database"
    /\ WaitStart
    /\ UNCHANGED <<store_vars, engine_vars, customer_vars, product_vars, main_vars,
                   setup_vars, env>>

\* Lines 610-624: one step of the environment group
RunStep ==
    /\ spc = "steps"
    /\ StepReturned(Steps[sidx])
    /\ \E ok \in StepOutcomes(Steps[sidx]) :
         /\ calls' = Append(calls, Call(Steps[sidx], ok))
         /\ IF ~ok
            THEN /\ failed_steps' = Append(failed_steps, Steps[sidx])
                 /\ cleaned' = TRUE
                 /\ spc' = "done"
                 /\ sresult' = Some(FALSE)
                 /\ UNCHANGED sidx
            ELSE /\ IF sidx < Len(Steps)
                    THEN sidx' = sidx + 1 /\ UNCHANGED spc
                    ELSE sidx' = 1 /\ spc' = "ack_initial"
                 /\ UNCHANGED <<failed_steps, cleaned, sresult>>
    /\ UNCHANGED <<store_vars, engine_vars, customer_vars, product_vars, main_vars,
                   wait_vars, env>>

\* Lines 627-628: user_acknowledgment_initial_data()
AcknowledgeInitialData ==
    /\ spc = "ack_initial"
    /\ \E proceed \in BOOLEAN :
         IF proceed
         THEN spc' = "initial" /\ UNCHANGED sresult
         ELSE spc' = "done" /\ sresult' = Some(TRUE)
    /\ UNCHANGED <<store_vars, engine_vars, customer_vars, product_vars, main_vars,
                   wait_vars, env, sidx, calls, failed_steps, cleaned>>

\* Lines 638-645: one step of the initial pipeline group
RunInitialStep ==
    /\ spc = "initial"
    /\ \E ok \in BOOLEAN :
         /\ calls' = Append(calls, Call(InitialSteps[sidx], ok))
         /\ IF ~ok
            THEN /\ failed_steps' = Append(failed_steps, InitialSteps[sidx])
                 /\ cleaned' = TRUE
                 /\ spc' = "done"
                 /\ sresult' = Some(FALSE)
                 /\ UNCHANGED sidx
            ELSE /\ IF sidx < Len(InitialSteps)
                    THEN sidx' = sidx + 1 /\ UNCHANGED spc
                    ELSE sidx' = 1 /\ spc' = "ack_incremental"
                 /\ UNCHANGED <<failed_steps, cleaned, sresult>>
    /\ UNCHANGED <<store_vars, engine_vars, customer_vars, product_vars, main_vars,
                   wait_vars, env>>

\* Lines 648-656: user_acknowledgment_incremental_test()
AcknowledgeIncrementalTest ==
    /\ spc = "ack_incremental"
    /\ \E proceed \in BOOLEAN :
         IF proceed
         THEN spc' = "incremental" /\ UNCHANGED sresult
         ELSE spc' = "done" /\ sresult' = Some(TRUE)
    /\ UNCHANGED <<store_vars, engine_vars, customer_vars, product_vars, main_vars,
                   wait_vars, env, sidx, calls, failed_steps, cleaned>>

\* Lines 664-708: one iteration of the incremental loop. step_function() is
\* called (line 667); False breaks out of the loop to the return True of
\* line 708; after True it is called again (line 673), and False then
\* cleans up and returns False
RunIncrementalStep ==
    /\ spc = "incremental"
    /\ \E first \in BOOLEAN, second \in BOOLEAN :
         LET name == IncrementalSteps[sidx]
         IN  IF ~first
             THEN /\ calls' = Append(calls, Call(name, FALSE))
                  /\ failed_steps' = Append(failed_steps, name)
                  /\ spc' = "done"
                  /\ sresult' = Some(TRUE)
                  /\ UNCHANGED <<sidx, cleaned>>
             ELSE /\ calls' = calls \o <<Call(name, TRUE), Call(name, second)>>
                  /\ IF ~second
                     THEN /\ failed_steps' = Append(failed_steps, name)
                          /\ cleaned' = TRUE
                          /\ spc' = "done"
                          /\ sresult' = Some(FALSE)
                          /\ UNCHANGED sidx
                     ELSE /\ IF sidx < Len(IncrementalSteps)
                             THEN /\ sidx' = sidx + 1
                                  /\ UNCHANGED <<spc, sresult>>
                             ELSE /\ spc' = "done"
                                  /\ sresult' = Some(TRUE)
                                  /\ UNCHANGED sidx
                          /\ UNCHANGED <<failed_steps, cleaned>>
    /\ UNCHANGED <<store_vars, engine_vars, customer_vars, product_vars, main_vars,
                   wait_vars, env>>

-----------------------------------------------------------------------------
(* The store before the engine runs, and the specifications *)

\* Two customers persisted by populate_customers
StoredCustomers ==
    <<[email |-> "a", created_at |-> 0], [email |-> "b", created_at |-> Hour]>>

\* Catalogs persisted by populate_products: one with a product created
\* inside the windows and a product older than every window, one whose only
\* product is created after the explicit start date, one whose only product
\* is created after the end of every window
ProductCatalogs ==
    { <<[created_at |-> Day + 12 * Hour + 1, price |-> 2503],
        [created_at |-> 0, price |-> 1999]>>,
      <<[created_at |-> Day + 2 * Hour + 1, price |-> 1000]>>,
      <<[created_at |-> (MaxDays + 4) * Day, price |-> 1000]>> }

\* --start-date: absent, or the day 1 after the epoch
StartDates == {None, Some(1)}

\* datetime.now() when the run computes its window
NowDraws == {Day + 13 * Hour + 1}

\* The draws enumerated over their sampled values, for the first order
FocusProfiles ==
    {{"sample", "date"}, {"sample", "item"}, {"sample", "status"}, {"sample", "money"},
     {"sample", "who"}}

IdleEngine ==
    /\ pc = "idle"
    /\ args = [num_orders |-> 0, max_items_per_order |-> 1, days |-> 1, start_date |-> None,
               now |-> 0]
    /\ start_datetime = 0
    /\ end_datetime = 0
    /\ pending_orders = <<>>
    /\ order_counters = <<>>
    /\ orders_to_get_items = {}
    /\ cur = None
    /\ completed_orders = {}
    /\ refunded_orders = {}
    /\ all_order_records = <<>>
    /\ all_item_records = <<>>
    /\ result = "none"
    /\ run = [started |-> FALSE, prior_orders |-> <<>>, prior_items |-> <<>>,
              insert_failed |-> FALSE]

IdleCustomers ==
    /\ cpc = "idle"
    /\ cargs = [num_records |-> 0, start_dt |-> 0, end_dt |-> 0, now |-> 0]
    /\ existing_emails = {}
    /\ rows = <<>>
    /\ cresult = "none"

IdleProducts ==
    /\ ppc = "idle"
    /\ pargs = [num_records |-> 0, start_dt |-> 0, end_dt |-> 0, now |-> 0]
    /\ prows = <<>>
    /\ presult = "none"

\* main has not been entered: the functions are called on their own
IdleMain ==
    /\ mpc = "idle"
    /\ margs = [customers |-> 0, products |-> 0, orders |-> 0, order_items |-> 1,
                days |-> 1, start_date |-> None, now |-> 0,
                init_db |-> FALSE, truncate |-> FALSE, drop_recreate |-> FALSE,
                stats_only |-> FALSE]
    /\ exit_code = None

\* setup.py has not been run
IdleSetup ==
    /\ spc = "idle"
    /\ sidx = 1
    /\ calls = <<>>
    /\ failed_steps = <<>>
    /\ cleaned = FALSE
    /\ sresult = None

IdleWait ==
    /\ wpc = "idle"
    /\ attempt = 0
    /\ probes = 0
    /\ last = "none"
    /\ wresult = None

\* One run of the engine on a store holding customers and products
Init ==
    /\ customers = StoredCustomers
    /\ products \in ProductCatalogs
    /\ orders = <<>>
    /\ order_items = <<>>
    /\ autocommit = TRUE
    /\ IdleEngine
    /\ IdleCustomers
    /\ IdleProducts
    /\ IdleMain
    /\ IdleSetup
    /\ IdleWait
    /\ \E kinds \in FocusProfiles :
         env = [focus |-> {1}, kinds |-> kinds, faults |-> FALSE, runs_left |-> 1]

Next ==
    \/ \E num_orders \in 0..MaxOrders, max_items_per_order \in 1..MaxItems,
          days \in 1..MaxDays, start_date \in StartDates, now \in NowDraws :
            StartRun(num_orders, max_items_per_order, days, start_date, now)
    \/ CreatePendingOrder
    \/ SelectOrdersToGetItems
    \/ BeginOrderItems
    \/ AddItem
    \/ FinishOrderItems
    \/ DetermineStatuses
    \/ MaterializeOrder
    \/ PersistRecords

Spec == Init /\ [][Next]_vars

\* The same run on a store that may reject a row of a bulk insert
InitFault ==
    /\ customers = StoredCustomers
    /\ products \in ProductCatalogs
    /\ orders = <<>>
    /\ order_items = <<>>
    /\ autocommit = TRUE
    /\ IdleEngine
    /\ IdleCustomers
    /\ IdleProducts
    /\ IdleMain
    /\ IdleSetup
    /\ IdleWait
    /\ env = [focus |-> {1}, kinds |-> {"sample", "item"}, faults |-> TRUE, runs_left |-> 1]

SpecFault == InitFault /\ [][Next]_vars

\* A run of BulkOrders orders: the delays of the first order's status records
\* are enumerated, every other draw is at the low end of its range
BulkOrders == 13

InitBulk ==
    /\ customers = StoredCustomers
    /\ products = <<[created_at |-> 0, price |-> 1999]>>
    /\ orders = <<>>
    /\ order_items = <<>>
    /\ autocommit = TRUE
    /\ IdleEngine
    /\ IdleCustomers
    /\ IdleProducts
    /\ IdleMain
    /\ IdleSetup
    /\ IdleWait
    /\ env = [focus |-> {1}, kinds |-> {"status"}, faults |-> FALSE, runs_left |-> 1]

NextBulk ==
    \/ \E days \in 1..MaxDays, now \in NowDraws :
            StartRun(BulkOrders, 1, days, Some(1), now)
    \/ CreatePendingOrder
    \/ SelectOrdersToGetItems
    \/ BeginOrderItems
    \/ AddItem
    \/ FinishOrderItems
    \/ DetermineStatuses
    \/ MaterializeOrder
    \/ PersistRecords

SpecBulk == InitBulk /\ [][NextBulk]_vars

\* Two runs in succession against the same store, one order each

InitRerun ==
    /\ customers = StoredCustomers
    /\ products = <<[created_at |-> 0, price |-> 1999]>>
    /\ orders = <<>>
    /\ order_items = <<>>
    /\ autocommit = TRUE
    /\ IdleEngine
    /\ IdleCustomers
    /\ IdleProducts
    /\ IdleMain
    /\ IdleSetup
    /\ IdleWait
    /\ env = [focus |-> {1}, kinds |-> {"sample", "date"}, faults |-> FALSE,
              runs_left |-> 2]

NextRerun ==
    \/ \E days \in 1..MaxDays, start_date \in StartDates, now \in NowDraws :
            StartRun(1, 1, days, start_date, now)
    \/ CreatePendingOrder
    \/ SelectOrdersToGetItems
    \/ BeginOrderItems
    \/ AddItem
    \/ FinishOrderItems
    \/ DetermineStatuses
    \/ MaterializeOrder
    \/ PersistRecords

SpecRerun == InitRerun /\ [][NextRerun]_vars

\* populate_customers on a store that holds none, one or two customers
MaxCustomers == 2

InitCustomers ==
    /\ \E n \in 0..Len(StoredCustomers) : customers = Prefix(StoredCustomers, n)
    /\ products = <<>>
    /\ orders = <<>>
    /\ order_items = <<>>
    /\ autocommit = TRUE
    /\ IdleEngine
    /\ IdleCustomers
    /\ IdleProducts
    /\ IdleMain
    /\ IdleSetup
    /\ IdleWait
    /\ env = [focus |-> {}, kinds |-> {}, faults |-> FALSE, runs_left |-> 0]

NextCustomers ==
    \/ \E num_records \in 0..MaxCustomers, days \in 1..MaxDays,
          start_date \in StartDates, now \in NowDraws :
            StartCustomers(num_records, days, start_date, now)
    \/ GenerateCustomer
    \/ InsertCustomers

SpecCustomers == InitCustomers /\ [][NextCustomers]_vars

\* main on a store that is empty or holds one customer; the bulk inserts may
\* be rejected
PipelineRecords == 1

InitPipeline ==
    /\ customers \in {<<>>, Prefix(StoredCustomers, 1)}
    /\ products = <<>>
    /\ orders = <<>>
    /\ order_items = <<>>
    /\ autocommit = TRUE
    /\ IdleEngine
    /\ IdleCustomers
    /\ IdleProducts
    /\ IdleMain
    /\ IdleSetup
    /\ IdleWait
    /\ env = [focus |-> {}, kinds |-> {}, faults |-> TRUE, runs_left |-> 1]

NextPipeline ==
    \/ \E num_customers \in 0..PipelineRecords, num_products \in 0..PipelineRecords,
          num_orders \in 0..PipelineRecords, days \in {1, MaxDays},
          start_date \in StartDates, now \in NowDraws :
            MainStart(num_customers, num_products, num_orders, 1, days, start_date, now,
                      NoFlags)
    \/ MainPrepare
    \/ CallCustomers
    \/ GenerateCustomer
    \/ InsertCustomers
    \/ ReturnCustomers
    \/ CallProducts
    \/ GenerateProduct
    \/ InsertProducts
    \/ ReturnProducts
    \/ CallOrders
    \/ CreatePendingOrder
    \/ SelectOrdersToGetItems
    \/ BeginOrderItems
    \/ AddItem
    \/ FinishOrderItems
    \/ DetermineStatuses
    \/ MaterializeOrder
    \/ PersistRecords
    \/ ReturnOrders

SpecPipeline == InitPipeline /\ [][NextPipeline]_vars

\* The rows the store holds before main is run with flags
MainCustomers == Prefix(StoredCustomers, 1)

MainProducts == <<[created_at |-> 0, price |-> 1999]>>

\* main with every combination of its flags on a store that holds rows;
\* statements may fail
InitMain ==
    /\ customers = MainCustomers
    /\ products = MainProducts
    /\ orders = <<>>
    /\ order_items = <<>>
    /\ autocommit = TRUE
    /\ IdleEngine
    /\ IdleCustomers
    /\ IdleProducts
    /\ IdleMain
    /\ IdleSetup
    /\ IdleWait
    /\ env = [focus |-> {}, kinds |-> {}, faults |-> TRUE, runs_left |-> 1]

NextMain ==
    \/ \E init_db \in BOOLEAN, truncate \in BOOLEAN, drop_recreate \in BOOLEAN,
          stats_only \in BOOLEAN, now \in NowDraws :
            MainStart(1, 1, 1, 1, 1, None, now,
                      [init_db |-> init_db, truncate |-> truncate,
                       drop_recreate |-> drop_recreate, stats_only |-> stats_only])
    \/ MainPrepare
    \/ CallCustomers
    \/ GenerateCustomer
    \/ InsertCustomers
    \/ ReturnCustomers
    \/ CallProducts
    \/ GenerateProduct
    \/ InsertProducts
    \/ ReturnProducts
    \/ CallOrders
    \/ CreatePendingOrder
    \/ SelectOrdersToGetItems
    \/ BeginOrderItems
    \/ AddItem
    \/ FinishOrderItems
    \/ DetermineStatuses
    \/ MaterializeOrder
    \/ PersistRecords
    \/ ReturnOrders

SpecMain == InitMain /\ [][NextMain]_vars

\* setup.py on its own: no row is written by the model of populate_data.py
InitSetup ==
    /\ customers = <<>>
    /\ products = <<>>
    /\ orders = <<>>
    /\ order_items = <<>>
    /\ autocommit = TRUE
    /\ IdleEngine
    /\ IdleCustomers
    /\ IdleProducts
    /\ IdleMain
    /\ IdleSetup
    /\ IdleWait
    /\ env = [focus |-> {}, kinds |-> {}, faults |-> FALSE, runs_left |-> 0]

NextSetup ==
    \/ SetupStart
    \/ RunStep
    \/ CallWaitForDatabase
    \/ WaitAttempt
    \/ AcknowledgeInitialData
    \/ RunInitialStep
    \/ AcknowledgeIncrementalTest
    \/ RunIncrementalStep

SpecSetup == InitSetup /\ [][NextSetup]_vars

\* wait_for_database called on its own
CallWaitAlone ==
    /\ spc = "idle"
    /\ WaitStart
    /\ UNCHANGED <<store_vars, engine_vars, customer_vars, product_vars, main_vars,
                   setup_vars, env>>

NextWait ==
    \/ CallWaitAlone
    \/ WaitAttempt

\* Every subprocess.run and time.sleep returns or raises, so an iteration
\* that has begun comes to its end
SpecWait == InitSetup /\ [][NextWait]_vars /\ WF_vars(WaitAttempt)

-----------------------------------------------------------------------------
(* The statements checked *)

\* The identifiers of the logical orders that have records
LogicalIds == {all_order_records[k].id : k \in 1..Len(all_order_records)}

\* The order records and the item records of one logical order
RecordsOf(id) == {k \in 1..Len(all_order_records) : all_order_records[k].id = id}
ItemsOf(id) == {k \in 1..Len(all_item_records) : all_item_records[k].order_id = id}

StatusCount(id, status) ==
    Cardinality({k \in RecordsOf(id) : all_order_records[k].status = status})

\* Every order of the run has been created and has its records
RecordsBuilt ==
    /\ run.started
    /\ pc \in {"materialize", "done"}
    /\ Len(pending_orders) = args.num_orders
    /\ Materialized = Len(pending_orders)

RECURSIVE LineTotals(_, _)
\* The sum of quantity x unit_price over the item records of one identifier
LineTotals(id, k) ==
    IF k = 0 THEN 0
    ELSE LineTotals(id, k - 1)
         + (IF all_item_records[k].order_id = id
            THEN all_item_records[k].quantity * all_item_records[k].unit_price
            ELSE 0)

\* C1: every logical order of a run has exactly one pending record, exactly
\* one record that is completed or cancelled, and at most one refunded record,
\* which is there only with the completed record; once the records are built
\* every order of the run has them.
C1_LifecycleRecords ==
    /\ \A id \in LogicalIds :
         /\ StatusCount(id, "pending") = 1
         /\ StatusCount(id, "completed") + StatusCount(id, "cancelled") = 1
         /\ StatusCount(id, "refunded") <= 1
         /\ StatusCount(id, "refunded") = 1 => StatusCount(id, "completed") = 1
    /\ RecordsBuilt => \A k \in 1..Len(pending_orders) : pending_orders[k].id \in LogicalIds

\* A run whose records hold a refunded order, a completed order that is not
\* refunded and a cancelled order
C1_Witness ==
    /\ RecordsBuilt
    /\ \E id \in LogicalIds : StatusCount(id, "refunded") = 1
    /\ \E id \in LogicalIds :
         StatusCount(id, "completed") = 1 /\ StatusCount(id, "refunded") = 0
    /\ \E id \in LogicalIds : StatusCount(id, "cancelled") = 1

\* C2: the records of a logical order are ordered in time by stage: pending
\* no later than completed or cancelled, completed no later than refunded.
C2_StagesOrderedInTime ==
    \A id \in LogicalIds : \A a, b \in RecordsOf(id) :
        LET ra == all_order_records[a]
            rb == all_order_records[b]
        IN  /\ (ra.status = "pending" /\ rb.status \in {"completed", "cancelled"})
                  => ra.created_at <= rb.created_at
            /\ (ra.status = "completed" /\ rb.status = "refunded")
                  => ra.created_at <= rb.created_at

\* C3: all the records of a logical order carry the same total_amount, the
\* sum of quantity x unit_price over the item records of that identifier.
C3_TotalIsItemSum ==
    \A id \in LogicalIds : \A k \in RecordsOf(id) :
        all_order_records[k].total_amount = LineTotals(id, Len(all_item_records))

\* A completed order with a discounted item of quantity above one, and so a
\* total that is neither zero nor a catalog price
C3_Witness ==
    /\ RecordsBuilt
    /\ \E id \in LogicalIds :
         /\ StatusCount(id, "completed") = 1
         /\ \E k \in ItemsOf(id) :
              /\ all_item_records[k].quantity > 1
              /\ all_item_records[k].unit_price < products[all_item_records[k].product_id].price
         /\ \A k \in RecordsOf(id) : all_order_records[k].total_amount > 0

\* C4: a logical order without items has a cancelled record and total 0 on
\* all its records; an order with a completed or refunded record has an item.
C4_NoItemsMeansCancelled ==
    \A id \in LogicalIds :
        /\ ItemsOf(id) = {} =>
             /\ StatusCount(id, "cancelled") = 1
             /\ \A k \in RecordsOf(id) : all_order_records[k].total_amount = 0
        /\ (StatusCount(id, "completed") > 0 \/ StatusCount(id, "refunded") > 0)
             => ItemsOf(id) # {}

\* A run with an order that got no items beside an order that completed
C4_Witness ==
    /\ RecordsBuilt
    /\ \E id \in LogicalIds : ItemsOf(id) = {} /\ StatusCount(id, "cancelled") = 1
    /\ \E id \in LogicalIds : StatusCount(id, "completed") = 1

\* C5: an item record is created no earlier than the order_date of its
\* logical order and no earlier than the product it references.
C5_ItemAfterOrderAndProduct ==
    \A k \in 1..Len(all_item_records) :
        LET item == all_item_records[k]
        IN  /\ \A r \in RecordsOf(item.order_id) :
                  item.created_at >= all_order_records[r].order_date
            /\ item.created_at >= products[item.product_id].created_at

\* An item of a product that was created inside the window, which only an
\* order dated after it can take, the catalog holding an older product too
C5_Witness ==
    /\ RecordsBuilt
    /\ Len(products) > 1
    /\ \E k \in 1..Len(all_item_records) :
         products[all_item_records[k].product_id].created_at > start_datetime

\* C6: when an insert of the persistence step fails, none of the run's order
\* records and item records remain in the store; customers and products do.
C6_FailedInsertLeavesNothing ==
    (pc = "done" /\ run.insert_failed) =>
        /\ orders = run.prior_orders
        /\ order_items = run.prior_items
        /\ customers = StoredCustomers
        /\ products \in ProductCatalogs

\* C7: without an explicit start date and with orders in the store, the
\* window starts strictly after the latest stored created_at, and so does
\* every new order_date.
C7_WindowStartsAfterStored ==
    (run.started /\ args.start_date = None /\ Len(run.prior_orders) > 0) =>
        /\ start_datetime > MaxCreatedAt(run.prior_orders)[1]
        /\ \A k \in 1..Len(pending_orders) :
              pending_orders[k].order_date > MaxCreatedAt(run.prior_orders)[1]

\* C8: no order identifier of a run equals an identifier the store held
\* before the run; stated for the runs that take their window from the
\* store (no explicit start date), the case the claim is least demanding in.
C8_NoIdentifierReused ==
    (run.started /\ args.start_date = None) =>
        \A k \in 1..Len(pending_orders) :
            \A j \in 1..Len(run.prior_orders) :
                pending_orders[k].id # run.prior_orders[j].id

\* C9: every order record and every item record of a run has its created_at
\* inside the window [start_datetime, end_datetime] of the run.
C9_RecordsInsideWindow ==
    /\ \A k \in 1..Len(all_order_records) :
          /\ start_datetime <= all_order_records[k].created_at
          /\ all_order_records[k].created_at <= end_datetime
    /\ \A k \in 1..Len(all_item_records) :
          /\ start_datetime <= all_item_records[k].created_at
          /\ all_item_records[k].created_at <= end_datetime

\* C10: the emails generated for a batch are pairwise distinct and none of
\* them is an email the customers table held before the batch.
C10_EmailsDistinct ==
    cpc = "generate" =>
        /\ \A i, j \in 1..Len(rows) : i # j => rows[i].email # rows[j].email
        /\ \A i \in 1..Len(rows) :
              \A k \in 1..Len(customers) : rows[i].email # customers[k].email

\* C11: when the engine is invoked on a store whose customers table or
\* products table is empty, it returns False at once, without raising, and
\* no order record and no item record is built or inserted.
C11_NoSourceDataReturnsFalse ==
    (pc # "idle" /\ (Len(customers) = 0 \/ Len(products) = 0)) =>
        /\ pc = "done"
        /\ result = "false"
        /\ all_order_records = <<>>
        /\ all_item_records = <<>>
        /\ orders = run.prior_orders
        /\ order_items = run.prior_items

\* main asked for an order, the customers stage created nothing, the
\* products stage created a product, and the engine has returned False
C11_Witness ==
    /\ mpc = "orders"
    /\ pc = "done"
    /\ margs.orders > 0
    /\ Len(customers) = 0
    /\ Len(products) > 0
    /\ result = "false"

\* C12: the window a stage computes has start < end and an end that is not
\* after the wall-clock time of the computation.
C12_WindowOrderedAndNotInFuture ==
    cpc = "generate" =>
        /\ cargs.start_dt < cargs.end_dt
        /\ cargs.end_dt <= cargs.now

\* C13: a run that takes its window from the store leaves the stored order
\* records and item records as they were, and builds no item record whose
\* order_id is the identifier of a stored order.
C13_StoredOrdersUntouched ==
    (run.started /\ args.start_date = None) =>
        /\ Len(orders) >= Len(run.prior_orders)
        /\ Prefix(orders, Len(run.prior_orders)) = run.prior_orders
        /\ Len(order_items) >= Len(run.prior_items)
        /\ Prefix(order_items, Len(run.prior_items)) = run.prior_items
        /\ \A k \in 1..Len(all_item_records) :
              \A j \in 1..Len(run.prior_orders) :
                  all_item_records[k].order_id # run.prior_orders[j].id

\* The orders of the run that share the second of order k, up to order k
SameSecondUpTo(k) ==
    {j \in 1..k : strftime(pending_orders[j].order_date)
                     = strftime(pending_orders[k].order_date)}

\* C14: the identifiers of the orders of one run are pairwise distinct, and
\* the k-th order drawn for a second carries the sequence number k.
C14_IdentifiersDistinct ==
    /\ \A i, j \in 1..Len(pending_orders) :
          i # j => pending_orders[i].id # pending_orders[j].id
    /\ \A k \in 1..Len(pending_orders) :
          pending_orders[k].id[3] = Cardinality(SameSecondUpTo(k))

\* Two orders of a run drawn for the same second
C14_Witness ==
    /\ Len(pending_orders) = 2
    /\ strftime(pending_orders[1].order_date) = strftime(pending_orders[2].order_date)
    /\ pending_orders[2].id[3] = 2

\* C15: whatever the product timestamps are, the run does not raise, and an
\* order no product is old enough for gets no items, a cancelled record and
\* the total 0.
C15_NoEligibleProductIsNoError ==
    run.started =>
        /\ result # "raised"
        /\ RecordsBuilt =>
             \A k \in 1..Len(pending_orders) :
                 (\A pid \in 1..Len(products) :
                      products[pid].created_at > pending_orders[k].order_date)
                 => /\ ItemsOf(pending_orders[k].id) = {}
                    /\ StatusCount(pending_orders[k].id, "cancelled") = 1
                    /\ \A r \in RecordsOf(pending_orders[k].id) :
                          all_order_records[r].total_amount = 0

\* C16: every item record references a product of the catalog and every
\* order record references a customer of the customers table.
C16_ReferencesExist ==
    /\ \A k \in 1..Len(all_item_records) :
          \E pid \in 1..Len(products) : all_item_records[k].product_id = pid
    /\ \A k \in 1..Len(all_order_records) :
          \E cid \in 1..Len(customers) : all_order_records[k].customer_id = cid

\* A run with item records and an order of the last customer of the table
C16_Witness ==
    /\ RecordsBuilt
    /\ all_item_records # <<>>
    /\ \E k \in 1..Len(all_order_records) :
          all_order_records[k].customer_id = Len(customers)

\* C17: after a failed insert of the customers stage the products stage and
\* the engine are never entered and nothing of theirs is in the store, after
\* a failed insert of the products stage the engine is never entered, and
\* the failed stage stays finished (it is not run again).
C17_NoStageAfterFailedStage ==
    /\ cresult = "raised" =>
          /\ cpc = "done"
          /\ ppc = "idle" /\ pc = "idle"
          /\ products = <<>> /\ orders = <<>> /\ order_items = <<>>
    /\ presult = "raised" =>
          /\ ppc = "done"
          /\ pc = "idle"
          /\ orders = <<>> /\ order_items = <<>>

\* main has exited after the insert of the customers stage failed, with
\* products and orders asked for
C17_Witness ==
    /\ mpc = "exit"
    /\ cresult = "raised"
    /\ margs.products > 0
    /\ margs.orders > 0

\* C18: every generated customer has created_at inside the window of the
\* customers stage and signup_date on a day of that window; every generated
\* product has created_at inside the window of the products stage.
C18_GeneratedInsideWindow ==
    /\ \A k \in 1..Len(rows) :
          /\ cargs.start_dt <= rows[k].created_at
          /\ rows[k].created_at <= cargs.end_dt
          /\ DateOf(cargs.start_dt) <= rows[k].signup_date
          /\ rows[k].signup_date <= DateOf(cargs.end_dt)
    /\ \A k \in 1..Len(prows) :
          /\ pargs.start_dt <= prows[k].created_at
          /\ prows[k].created_at <= pargs.end_dt

\* A customer and a product generated at the far end of their windows
C18_Witness ==
    /\ \E k \in 1..Len(rows) : rows[k].created_at > cargs.start_dt
    /\ \E k \in 1..Len(prows) : prows[k].created_at > pargs.start_dt

\* C19: without a start date, the windows computed for two empty tables at
\* different times start at the same date.
C19_EmptyTableStartIsFixed ==
    ( /\ margs.start_date = None
      /\ cresult = "returned" /\ rows # <<>> /\ Len(customers) = Len(rows)
      /\ ppc = "generate" /\ products = <<>> )
    => cargs.start_dt = pargs.start_dt

\* C20: the window of a run starts no earlier than the earliest product,
\* later than it when the date range started before it, and every order_date
\* of the run is at or after the earliest product's created_at.
C20_OrdersNotBeforeEarliestProduct ==
    run.started =>
        LET earliest == SetMin({products[k].created_at : k \in 1..Len(products)})
            range == standalone_calculate_date_range(run.prior_orders, args.days,
                                                     args.start_date, args.now)
        IN  /\ start_datetime >= earliest
            /\ earliest > range.start => start_datetime > earliest
            /\ \A k \in 1..Len(pending_orders) :
                  pending_orders[k].order_date >= earliest

\* A run whose window was moved behind the earliest product and that has
\* created an order
C20_Witness ==
    /\ run.started
    /\ args.start_date # None
    /\ strptime(args.start_date[1])
          < SetMin({products[k].created_at : k \in 1..Len(products)})
    /\ pending_orders # <<>>

\* The statuses of the run have been drawn
StatusesDrawn == run.started /\ pc \in {"materialize", "done"} /\ result # "raised"

\* The pending orders that received items
ItemBearing == {pending_orders[k] : k \in {j \in 1..Len(pending_orders) : pending_orders[j].has_items}}

\* C21: the number c of completed orders is between floor(0.90 w) and w, w
\* the number of orders with items; the completed orders are orders with
\* items, each has one completed record and every other order with items has
\* a cancelled record.
C21_CompletedShare ==
    StatusesDrawn =>
        LET w == Cardinality(ItemBearing)
            c == Cardinality(completed_orders)
        IN  /\ (90 * w) \div 100 <= c
            /\ c <= w
            /\ completed_orders \subseteq ItemBearing
            /\ RecordsBuilt =>
                 \A order \in ItemBearing :
                    /\ order \in completed_orders => StatusCount(order.id, "completed") = 1
                    /\ order \notin completed_orders => StatusCount(order.id, "cancelled") = 1

\* A run in which an order with items was not completed and another was
C21_Witness ==
    /\ RecordsBuilt
    /\ Cardinality(completed_orders) < Cardinality(ItemBearing)
    /\ Cardinality(completed_orders) >= 10

\* C22: the refunded orders are completed orders, each with one refunded
\* record, and their number r is between floor(0.05 c) and floor(0.10 c), c
\* the number of completed orders.
C22_RefundedShare ==
    StatusesDrawn =>
        LET c == Cardinality(completed_orders)
            r == Cardinality(refunded_orders)
        IN  /\ refunded_orders \subseteq completed_orders
            /\ (5 * c) \div 100 <= r
            /\ r <= (10 * c) \div 100
            /\ RecordsBuilt =>
                 \A k \in 1..Len(pending_orders) :
                    StatusCount(pending_orders[k].id, "refunded")
                       = (IF pending_orders[k] \in refunded_orders THEN 1 ELSE 0)

\* A run with ten or more completed orders, one of which is refunded
C22_Witness ==
    /\ RecordsBuilt
    /\ Cardinality(completed_orders) >= 10
    /\ Cardinality(refunded_orders) = 1

\* C23: an order that received items has between 1 and max_items_per_order
\* item records.
C23_ItemCountInRange ==
    RecordsBuilt =>
        \A k \in 1..Len(pending_orders) :
            pending_orders[k].has_items =>
                /\ Cardinality(ItemsOf(pending_orders[k].id)) >= 1
                /\ Cardinality(ItemsOf(pending_orders[k].id)) <= args.max_items_per_order

\* An order with two items taken from a catalog of one product
C23_Witness ==
    /\ RecordsBuilt
    /\ Len(products) = 1
    /\ \E k \in 1..Len(pending_orders) :
          Cardinality(ItemsOf(pending_orders[k].id)) = 2

\* C24 as stated: quantity in {1, 2, 3}, unit_price >= 0, at most the
\* catalog price and at least 70% of the catalog price.
C24_PriceWithinDiscountRange ==
    \A k \in 1..Len(all_item_records) :
        LET item == all_item_records[k]
            catalog_price == products[item.product_id].price
        IN  /\ item.quantity \in {1, 2, 3}
            /\ item.unit_price >= 0
            /\ item.unit_price <= catalog_price
            /\ 100 * item.unit_price >= 70 * catalog_price

\* C24 amended: quantity in {1, 2, 3}, unit_price >= 0, at most the catalog
\* price and not more than half a cent below 70% of the catalog price (the
\* discounted price is rounded to the cent).
C24_PriceWithinRoundedDiscountRange ==
    \A k \in 1..Len(all_item_records) :
        LET item == all_item_records[k]
            catalog_price == products[item.product_id].price
        IN  /\ item.quantity \in {1, 2, 3}
            /\ item.unit_price >= 0
            /\ item.unit_price <= catalog_price
            /\ 100 * item.unit_price >= 70 * catalog_price - 50

\* An item sold at the largest discount, its price rounded down to the cent
C24_Witness ==
    \E k \in 1..Len(all_item_records) :
        LET item == all_item_records[k]
            catalog_price == products[item.product_id].price
        IN  /\ 100 * item.unit_price < 70 * catalog_price
            /\ item.quantity = 3

\* C25: once the item stage is entered, every order has a product that is
\* old enough, every order selected
\* in the item stage receives an item, and the number of orders with items
\* is the number selected, floor(N x r) with r in [0.85, 1.00].
C25_SelectedOrdersGetItems ==
    (run.started /\ pc \in {"stage2", "materialize", "done"} /\ result # "raised") =>
        LET withItems == {k \in 1..Len(pending_orders) : pending_orders[k].has_items}
            selected == Cardinality(withItems) + Cardinality(orders_to_get_items)
        IN  /\ \A k \in 1..Len(pending_orders) :
                  \E pid \in 1..Len(products) :
                      products[pid].created_at <= pending_orders[k].order_date
            /\ \E p \in 85..100 : selected = (args.num_orders * p) \div 100
            /\ \A k \in withItems : Len(pending_orders[k].items) >= 1
            /\ pc # "stage2" => orders_to_get_items = {}

\* A run whose window was moved behind its only product and whose selected
\* order has its item
C25_Witness ==
    /\ RecordsBuilt
    /\ args.start_date # None
    /\ strptime(args.start_date[1])
          < SetMin({products[k].created_at : k \in 1..Len(products)})
    /\ \E k \in 1..Len(pending_orders) : pending_orders[k].has_items

\* C26: once main has exited after the order stage reported failure (the
\* engine returned False), the exit status is not zero
C26_FailedOrderStageExitsNonZero ==
    (mpc = "exit" /\ pc = "done" /\ result = "false") => exit_code # Some(0)

\* C30: main started with both --truncate and --drop-recreate exits with
\* status 1, the tables hold what they held and no stage is entered; main
\* started with --stats-only and neither destructive flag leaves the tables
\* as they were and enters no stage
C30_ConflictingFlagsAndStatsOnly ==
    LET untouched == /\ customers = MainCustomers
                     /\ products = MainProducts
                     /\ orders = <<>>
                     /\ order_items = <<>>
                     /\ cpc = "idle" /\ ppc = "idle" /\ pc = "idle"
    IN  /\ (mpc \notin {"idle", "prepare"} /\ margs.truncate /\ margs.drop_recreate) =>
               /\ mpc = "exit"
               /\ exit_code = Some(1)
               /\ untouched
        /\ (mpc \notin {"idle", "prepare"} /\ margs.stats_only
               /\ ~margs.truncate /\ ~margs.drop_recreate) =>
               /\ mpc = "exit"
               /\ untouched

\* main has exited with status 1 on both destructive flags, without
\* --init-db, and the tables hold their rows
C30_Witness ==
    /\ mpc = "exit"
    /\ margs.truncate /\ margs.drop_recreate /\ ~margs.init_db
    /\ exit_code = Some(1)
    /\ customers = MainCustomers

\* C27: when setup.py's main has returned True, every step function it
\* invoked returned True; when a step function it invoked returned False,
\* main has returned False
C27_TrueOnlyIfEveryStepSucceeded ==
    spc = "done" =>
        (sresult = Some(TRUE) <=> \A i \in 1..Len(calls) : calls[i].ok)

\* C28: the step functions setup.py's main has invoked are in the listed
\* order, none of them twice, and none after one that returned False
C28_StepsInOrderAtMostOnce ==
    LET listed == Steps \o InitialSteps \o IncrementalSteps
        Position(name) == CHOOSE k \in 1..Len(listed) : listed[k] = name
    IN  \A i \in 1..Len(calls) : \A j \in 1..Len(calls) :
            i < j => /\ Position(calls[i].name) < Position(calls[j].name)
                     /\ calls[i].ok

\* C29: wait_for_database returns once its loop is entered; it has returned
\* True exactly when the last iteration found both checks succeeding, and
\* no iteration follows such an iteration; it has returned False only after
\* 30 iterations, raising ones included, none of which found that
C29_WaitTerminates ==
    /\ [](/\ wresult = Some(TRUE) => last = "ready"
          /\ last = "ready" => (wpc = "done" /\ wresult = Some(TRUE))
          /\ wresult = Some(FALSE) => (probes = 30 /\ last # "ready")
          /\ wpc = "loop" => probes < 30)
    /\ ((wpc = "loop") ~> (wpc = "done"))

\* wait_for_database has returned False and its last iteration raised
C29_Witness ==
    /\ wpc = "done"
    /\ wresult = Some(FALSE)
    /\ last = "raised"
    /\ probes = 30

====
